---------------------------- MODULE Spec2Model ----------------------------
(***************************************************************************)
(* A model of jyogi_manager.py: the text sanitizer, the workbook store     *)
(* (one spreadsheet file, six sheets), the image folder, and the page      *)
(* script that Streamlit re-runs from the top for every interaction of a   *)
(* browser session.                                                        *)
(*                                                                         *)
(* Text is a sequence of one-character strings.  A cell of an in-memory    *)
(* table (a pandas DataFrame) is a Python value: None, NaN, a str or an    *)
(* int.  A cell of the workbook file is text; the empty text is an empty   *)
(* cell.                                                                   *)
(***************************************************************************)
EXTENDS Integers, Sequences, FiniteSets, TLC

VARIABLES
    fn, arg, out,                 \* a call of one of the pure functions
    PUBLIC_MODE, ADMIN_PASSCODE,  \* the two settings, read once at start-up
    file,                         \* crystal_data.xlsx
    images,                       \* the images folder: file name -> bytes
    uuidCount,                    \* how many uuid4() values were drawn
    is_admin,                     \* st.session_state.is_admin, per session
    pc,                           \* where each session's script run is
    data,                         \* the tables the current run loaded
    view,                         \* what the current run rendered
    event                         \* the last button a script run handled

textVars == <<fn, arg, out>>
confVars == <<PUBLIC_MODE, ADMIN_PASSCODE>>
diskVars == <<file, images, uuidCount>>
sessVars == <<is_admin, pc, data, view, event>>
vars == <<fn, arg, out, PUBLIC_MODE, ADMIN_PASSCODE, file, images, uuidCount,
          is_admin, pc, data, view, event>>

---------------------------------------------------------------------------
(* Bounds of the model. *)

\* Longest text drawn as the input of a pure function.
MaxLen == 3

\* Most rows a sheet of a stored workbook holds.
MaxStoredRows == 2

\* Most uuid4() values drawn in a run of the model.
MaxUuid == 4

\* Most uploads in a run of the image calls.
MaxUploads == 3

\* Most rows the Designs and the Reviews table hold in a run of the page
\* script.
MaxRows == 3

\* Most rows the Orders, Healings, Suppliers and Readings tables hold
\* together in a run of the page script.
MaxFormRows == 1

\* Most records the forms of the page script create in a run.
MaxNewIds == 1

\* Most records two sessions create together in a run of theirs.
MaxSessionAdds == 2

---------------------------------------------------------------------------
(* Characters. *)

\* The printable ASCII characters in code order, from code 32 (space); the
\* grave accent, which a string cannot hold, is spelled out.
Ascii ==
    <<" ", "!", "\"", "#", "$", "%", "&", "'", "(", ")", "*", "+", ",", "-",
      ".", "/", "0", "1", "2", "3", "4", "5", "6", "7", "8", "9", ":", ";",
      "<", "=", ">", "?", "@", "A", "B", "C", "D", "E", "F", "G", "H", "I",
      "J", "K", "L", "M", "N", "O", "P", "Q", "R", "S", "T", "U", "V", "W",
      "X", "Y", "Z", "[", "\\", "]", "^", "_", "grave", "a", "b", "c", "d", "e",
      "f", "g", "h", "i", "j", "k", "l", "m", "n", "o", "p", "q", "r", "s",
      "t", "u", "v", "w", "x", "y", "z", "{", "|", "}", "~">>

\* The characters of the model: the printable ones and the tab.
Chars == {Ascii[i] : i \in DOMAIN Ascii} \cup {"\t"}

\* The code of each character; a tab is code 9.
AsciiCode ==
    [c \in Chars |->
        IF c = "\t" THEN 9
        ELSE 31 + CHOOSE i \in DOMAIN Ascii : Ascii[i] = c]

Ord(c) == AsciiCode[c]

Chr(n) == IF n = 9 THEN "\t" ELSE Ascii[n - 31]

\* A character of a regular expression's range lo-hi.
InRange(c, lo, hi) == Ord(lo) <= Ord(c) /\ Ord(c) <= Ord(hi)

\* str.lower() of one character, and of a text.
LowerChar(c) == IF InRange(c, "A", "Z") THEN Chr(Ord(c) + 32) ELSE c

Lower(t) == [i \in DOMAIN t |-> LowerChar(t[i])]

\* What Python's str.strip() and the regular expression \s take for
\* white space, among the characters of the model.
IsSpace(c) == c \in {" ", "\t"}

RECURSIVE LStrip(_)
LStrip(t) ==
    IF t # <<>> /\ IsSpace(Head(t)) THEN LStrip(Tail(t)) ELSE t

RECURSIVE RStrip(_)
RStrip(t) ==
    IF t # <<>> /\ IsSpace(t[Len(t)]) THEN RStrip(SubSeq(t, 1, Len(t) - 1))
    ELSE t

\* str.strip()
Strip(t) == RStrip(LStrip(t))

\* All texts of at most n characters over the alphabet cs.
TextsUpTo(cs, n) == UNION {[1..k -> cs] : k \in 0..n}

---------------------------------------------------------------------------
(* Python values. *)

PyNone == [kind |-> "none", s |-> <<>>, n |-> 0]
PyNaN == [kind |-> "nan", s |-> <<>>, n |-> 0]
PyStr(t) == [kind |-> "str", s |-> t, n |-> 0]
PyInt(k) == [kind |-> "int", s |-> <<>>, n |-> k]

\* pd.isna(v)
isna(v) == v.kind \in {"none", "nan"}

\* The decimal digits of a natural number.
RECURSIVE NatDigits(_)
NatDigits(k) ==
    IF k < 10 THEN <<Chr(48 + k)>>
    ELSE Append(NatDigits(k \div 10), Chr(48 + (k % 10)))

\* str(v)
str(v) ==
    CASE v.kind = "str" -> v.s
      [] v.kind = "int" ->
            IF v.n < 0 THEN <<"-">> \o NatDigits(0 - v.n) ELSE NatDigits(v.n)
      [] v.kind = "none" -> <<"N", "o", "n", "e">>
      [] v.kind = "nan" -> <<"n", "a", "n">>

---------------------------------------------------------------------------
(* The sanitizer. *)

\* The characters the class [^a-zA-Z0-9 \.\,\!\-\@\:\/] does not match:
\* re.sub(..., "", text) keeps exactly these.
SafeChar(c) ==
    \/ InRange(c, "a", "z")
    \/ InRange(c, "A", "Z")
    \/ InRange(c, "0", "9")
    \/ c \in {" ", ".", ",", "!", "-", "@", ":", "/"}

SafeChars == {c \in Chars : SafeChar(c)}

\* A sanitizer whose character class also lets the underscore through.
safe_text_underscore(v) ==
    IF isna(v) THEN <<>>
    ELSE SelectSeq(str(v), LAMBDA c : c \in SafeChars \cup {"_"})

\* safe_text(text): empty for a missing value, else str(text) without
\* the characters the class matches.
safe_text(v) ==
    IF isna(v) THEN <<>>
    ELSE SelectSeq(str(v), LAMBDA c : c \in SafeChars)

\* clean_df that returns the table as it is.
clean_df_as_is(df) == df

\* clean_df(df): an empty table is returned as it is; otherwise every cell
\* is cast to str (astype(str): None becomes "None", NaN becomes "nan")
\* and then sanitized.
clean_df(df) ==
    IF df.rows = <<>> \/ df.cols = <<>> THEN df
    ELSE [cols |-> df.cols,
          rows |-> [i \in DOMAIN df.rows |->
                      [c \in DOMAIN df.rows[i] |->
                          PyStr(safe_text(PyStr(str(df.rows[i][c]))))]]]

---------------------------------------------------------------------------
(* The schema. *)

SheetNames ==
    <<"Orders", "Healings", "Designs", "Suppliers", "Reviews", "Readings">>

Sheets == {SheetNames[i] : i \in DOMAIN SheetNames}

SCHEMA ==
    [sheet \in Sheets |->
        CASE sheet = "Orders" ->
                <<"ID", "Date", "Customer", "Item", "Amount", "Status",
                  "Notes">>
          [] sheet = "Healings" ->
                <<"ID", "Date", "Client Name", "Request Type", "Intention",
                  "Status", "Notes">>
          [] sheet = "Designs" ->
                <<"ID", "Created On", "Design Name", "Category",
                  "Components", "My Cost", "Selling Price", "Public",
                  "Image Path", "Notes">>
          [] sheet = "Suppliers" ->
                <<"ID", "Supplier Name", "Material", "Price Per Unit", "MOQ",
                  "Contact Info", "Notes">>
          [] sheet = "Reviews" ->
                <<"ID", "Date", "Design ID", "Reviewer Name", "Rating",
                  "Review", "Status", "Admin Reply">>
          [] sheet = "Readings" ->
                <<"ID", "Date", "Client Name", "Reading Type", "Question",
                  "Notes", "Status">>]

---------------------------------------------------------------------------
(* Tables.  A table has its column names in order and its rows in order;   *)
(* a row maps each column name to its cell.                                *)

SeqRange(q) == {q[i] : i \in DOMAIN q}

\* pd.DataFrame(columns=cols)
EmptyFrame(cols) == [cols |-> cols, rows |-> <<>>]

\* df[c] = "" : a new column is appended after the existing ones.
WithColumn(df, c) ==
    [cols |-> Append(df.cols, c),
     rows |-> [i \in DOMAIN df.rows |->
                 [x \in DOMAIN df.rows[i] \cup {c} |->
                     IF x = c THEN PyStr(<<>>) ELSE df.rows[i][x]]]]

\* The loop of ensure_columns over cols[k..]: each missing column is added.
RECURSIVE AddMissing(_, _, _)
AddMissing(df, cols, k) ==
    IF k > Len(cols) THEN df
    ELSE AddMissing(IF cols[k] \in SeqRange(df.cols) THEN df
                    ELSE WithColumn(df, cols[k]),
                    cols, k + 1)

\* df[cols]: the columns cols, in that order.
SelectColumns(df, cols) ==
    [cols |-> cols,
     rows |-> [i \in DOMAIN df.rows |->
                 [c \in SeqRange(cols) |-> df.rows[i][c]]]]

\* ensure_columns without its last line: the table keeps its own columns
\* and their order, the missing ones appended.
ensure_columns_unordered(df, cols) == AddMissing(df, cols, 1)

ensure_columns(df, cols) == SelectColumns(AddMissing(df, cols, 1), cols)

\* str(uuid.uuid4()) of the n-th draw: no two draws are equal.
Uuid(n) == <<"f", "-">> \o NatDigits(n)

\* An ensure_ids that only fills the IDs that are the empty text.
MissingIdsEmptyOnly == {<<>>}

\* The values ensure_ids takes for a missing ID.
MissingIds == {<<>>, <<"n", "a", "n">>, <<"N", "o", "n", "e">>}

\* The rows of df whose ID ensure_ids replaces, in row order.
IdMask(df) ==
    IF df.rows = <<>> THEN <<>>
    ELSE SelectSeq([i \in DOMAIN df.rows |-> i],
                   LAMBDA i : str(df.rows[i]["ID"]) \in MissingIds)

\* How many rows before row i are in the mask.
MaskedBefore(df, i) ==
    Cardinality({j \in SeqRange(IdMask(df)) : j < i})

\* ensure_ids(df), the uuids drawn being those after the first n.
ensure_ids(df, n) ==
    IF df.rows = <<>> THEN df
    ELSE LET mask == SeqRange(IdMask(df))
         IN  [cols |-> df.cols,
              rows |-> [i \in DOMAIN df.rows |->
                          IF i \in mask
                          THEN [df.rows[i] EXCEPT !["ID"] =
                                  PyStr(Uuid(n + MaskedBefore(df, i) + 1))]
                          ELSE [df.rows[i] EXCEPT !["ID"] =
                                  PyStr(str(df.rows[i]["ID"]))]]]

---------------------------------------------------------------------------
(* The workbook file.  state is "missing", "ok" or "corrupt"; sheets maps  *)
(* the names of the sheets the file holds to their header and rows.        *)

NoSheets == [x \in {} |-> <<>>]

NoFile == [state |-> "missing", sheets |-> NoSheets]

CorruptFile == [state |-> "corrupt", sheets |-> NoSheets]

\* The texts pandas reads as a missing value (its default na_values) that
\* the sanitizer lets through.
NaTokens ==
    {<<>>, <<"n", "a", "n">>, <<"N", "a", "N">>, <<"N", "o", "n", "e">>,
     <<"N", "A">>, <<"N", "/", "A">>, <<"n", "/", "a">>,
     <<"N", "U", "L", "L">>, <<"n", "u", "l", "l">>,
     <<"-", "n", "a", "n">>, <<"-", "N", "a", "N">>}

\* pd.read_excel(xl, sheet_name=sheet): a cell that is empty or holds one
\* of the missing-value texts is read as NaN, any other as a str.
read_excel(sh) ==
    [cols |-> sh.cols,
     rows |-> [i \in DOMAIN sh.rows |->
                 [c \in DOMAIN sh.rows[i] |->
                     IF sh.rows[i][c] \in NaTokens THEN PyNaN
                     ELSE PyStr(sh.rows[i][c])]]]

\* df.to_excel(writer, sheet_name=sheet, index=False): the header and the
\* cells; a missing value is written as an empty cell.
to_excel(df) ==
    [cols |-> df.cols,
     rows |-> [i \in DOMAIN df.rows |->
                 [c \in DOMAIN df.rows[i] |->
                     IF isna(df.rows[i][c]) THEN <<>>
                     ELSE str(df.rows[i][c])]]]

\* The workbook ensure_workbook writes: every sheet, header only.
EmptyWorkbook ==
    [state |-> "ok",
     sheets |-> [sheet \in Sheets |-> to_excel(EmptyFrame(SCHEMA[sheet]))]]

\* ensure_workbook(): an existing file is left alone; a missing one is
\* created unless the write fails, which is swallowed.
ensure_workbook(f, canWrite) ==
    IF f.state # "missing" THEN f
    ELSE IF canWrite THEN EmptyWorkbook
    ELSE f

\* The fallback of load_all_data: every table empty.
EmptyData == [sheet \in Sheets |-> EmptyFrame(SCHEMA[sheet])]

\* One sheet of load_all_data up to clean_df: the sheet as read, with
\* the schema's columns, sanitized; an empty table for a sheet the file
\* does not hold.
ReadSheet(f, sheet) ==
    IF sheet \in DOMAIN f.sheets
    THEN clean_df(ensure_columns(read_excel(f.sheets[sheet]), SCHEMA[sheet]))
    ELSE EmptyFrame(SCHEMA[sheet])

\* The uuids the loop of load_all_data has drawn before sheet number k,
\* read being the sheets as read.
RECURSIVE DrawsBefore(_, _)
DrawsBefore(read, k) ==
    IF k <= 1 THEN 0
    ELSE DrawsBefore(read, k - 1) + Len(IdMask(read[SheetNames[k - 1]]))

SheetIndex ==
    [sheet \in Sheets |->
        CHOOSE k \in DOMAIN SheetNames : SheetNames[k] = sheet]

\* load_all_data() after ensure_workbook(), n uuids having been drawn
\* before: the tables, or the fallback when the file cannot be read.
load_all_data(f, n) ==
    IF f.state # "ok" THEN EmptyData
    ELSE LET read == [sheet \in Sheets |-> ReadSheet(f, sheet)]
         IN  [sheet \in Sheets |->
                ensure_ids(read[sheet],
                           n + DrawsBefore(read, SheetIndex[sheet]))]

\* The uuids load_all_data draws.
LoadDraws(f) ==
    IF f.state # "ok" THEN 0
    ELSE LET read == [sheet \in Sheets |-> ReadSheet(f, sheet)]
         IN  DrawsBefore(read, Len(SheetNames) + 1)

\* The workbook save_all_data writes when the write succeeds.
SavedWorkbook(d) ==
    [state |-> "ok",
     sheets |-> [sheet \in Sheets |->
                   to_excel(clean_df(ensure_columns(d[sheet],
                                                    SCHEMA[sheet])))]]

\* save_all_data(data) that writes the workbook whatever happens.
save_all_data_always_writes(d, f, outcome) == SavedWorkbook(d)

\* save_all_data(data): the file after the call.  A file held open by
\* another program raises PermissionError before anything is written;
\* another exception is raised before the file is opened ("failed") or
\* while it is written, which leaves a file that cannot be read
\* ("truncated").
save_all_data(d, f, outcome) ==
    CASE outcome = "ok" -> SavedWorkbook(d)
      [] outcome = "truncated" -> CorruptFile
      [] OTHER -> f

\* What save_all_data shows: the toast, the error for a locked file, or
\* the error for any other exception.
SaveMessage(outcome) ==
    CASE outcome = "ok" -> "saved"
      [] outcome = "locked" -> "close the excel file"
      [] OTHER -> "save failed"

SaveOutcomes == {"ok", "locked", "failed", "truncated"}

---------------------------------------------------------------------------
(* Calls of the pure functions: the argument is drawn at the start, a call *)
(* appends the result, and a second call is applied to the first result.   *)

\* The characters the argument texts are made of: allow-listed ones and
\* ones the sanitizer strips.
InputChars == {"a", "Z", "7", " ", "-", "$", "_", "\t"}

InputValues ==
    {PyNone, PyNaN} \cup {PyInt(k) : k \in {-12, 0, 7, 305}}
        \cup {PyStr(t) : t \in TextsUpTo(InputChars, MaxLen)}

CallSafeText ==
    /\ fn = "safe_text"
    /\ out = <<>>
    /\ out' = <<safe_text(arg)>>
    /\ UNCHANGED <<fn, arg, confVars, diskVars, sessVars>>

CallSafeTextAgain ==
    /\ fn = "safe_text"
    /\ Len(out) = 1
    /\ out' = Append(out, safe_text(PyStr(out[1])))
    /\ UNCHANGED <<fn, arg, confVars, diskVars, sessVars>>

---------------------------------------------------------------------------
(* File names and the images folder. *)

\* text[:80]
FilenameMax == 80

\* The characters the class [^a-zA-Z0-9\.\- ] does not match.
FilenameChar(c) ==
    \/ InRange(c, "a", "z")
    \/ InRange(c, "A", "Z")
    \/ InRange(c, "0", "9")
    \/ c \in {".", "-", " "}

FilenameChars == {c \in Chars : FilenameChar(c)}

\* re.sub(r"\s+", "-", text): every run of white space becomes one "-".
RECURSIVE CollapseSpace(_)
CollapseSpace(t) ==
    IF t = <<>> THEN <<>>
    ELSE IF IsSpace(Head(t)) THEN <<"-">> \o CollapseSpace(LStrip(t))
    ELSE <<Head(t)>> \o CollapseSpace(Tail(t))

\* text.strip("-")
RECURSIVE StripDash(_)
StripDash(t) ==
    IF t # <<>> /\ Head(t) = "-" THEN StripDash(Tail(t))
    ELSE IF t # <<>> /\ t[Len(t)] = "-"
         THEN StripDash(SubSeq(t, 1, Len(t) - 1))
    ELSE t

\* safe_filename(text)
safe_filename(v) ==
    IF isna(v) THEN <<>>
    ELSE LET kept == SelectSeq(Strip(str(v)), LAMBDA c : c \in FilenameChars)
             name == StripDash(CollapseSpace(kept))
         IN  SubSeq(name, 1, IF Len(name) < FilenameMax THEN Len(name)
                             ELSE FilenameMax)

\* os.path.splitext(name) of a bare file name: the extension starts at the
\* last dot, unless only dots come before it.
LastDot(t) ==
    IF \E i \in DOMAIN t : t[i] = "."
    THEN CHOOSE i \in DOMAIN t :
            t[i] = "." /\ \A j \in DOMAIN t : t[j] = "." => j <= i
    ELSE 0

splitext(t) ==
    LET i == LastDot(t)
    IN  IF i = 0 \/ \A j \in 1..i : t[j] = "."
        THEN <<t, <<>>>>
        ELSE <<SubSeq(t, 1, i - 1), SubSeq(t, i, Len(t))>>

ImageExts ==
    {<<".", "p", "n", "g">>, <<".", "j", "p", "g">>,
     <<".", "j", "p", "e", "g">>}

\* The extension the upload is stored with.
ImageExt(upname) ==
    LET ext == Lower(splitext(upname)[2])
    IN  IF ext \in ImageExts THEN ext ELSE <<".", "j", "p", "g">>

\* The name tried in the i-th round of the while loop.
SuffixedName(base, orig, ext, i) ==
    base \o <<"-">> \o orig \o <<"-">> \o NatDigits(i) \o ext

\* The while loop from round i on: the first name no file has.
RECURSIVE FreeName(_, _, _, _, _)
FreeName(base, orig, ext, i, names) ==
    IF SuffixedName(base, orig, ext, i) \in names
    THEN FreeName(base, orig, ext, i + 1, names)
    ELSE SuffixedName(base, orig, ext, i)

\* The file name the upload is written to, names being the files of the
\* images folder.
image_filename(d_name, upname, names) ==
    LET base == safe_filename(PyStr(d_name))
        orig == safe_filename(PyStr(splitext(upname)[1]))
        ext == ImageExt(upname)
        first == StripDash(base \o <<"-">> \o orig \o ext)
    IN  IF first \in names THEN FreeName(base, orig, ext, 1, names)
        ELSE first

NoImages == [x \in {} |-> 0]

\* The images folder after open(save_path, "wb") and the write.
write_image(imgs, name, bytes) ==
    [x \in DOMAIN imgs \cup {name} |-> IF x = name THEN bytes ELSE imgs[x]]

\* No file was chosen in the uploader.
NoUpload == [name |-> <<>>, bytes |-> 0]

\* Lines 419-440 of the design form: the name stored as the Image Path,
\* "None" when nothing was uploaded or the write failed, and the images
\* folder afterwards.
save_design_image(d_name, uploaded_file, imgs, ioOk) ==
    IF uploaded_file = NoUpload \/ ~ioOk
    THEN [image_filename |-> <<"N", "o", "n", "e">>, images |-> imgs]
    ELSE LET name == image_filename(d_name, uploaded_file.name, DOMAIN imgs)
         IN  [image_filename |-> name,
              images |-> write_image(imgs, name, uploaded_file.bytes)]

---------------------------------------------------------------------------
(* Sessions. *)

Sessions == {"s1", "s2"}

\* Nothing rendered yet: the page title, the page branch that ran, and on
\* the showcase the design query parameter, the IDs of show_df, the
\* options of the design picker, the design picked and the IDs of the
\* reviews shown.
NoView ==
    [page |-> "", rendered |-> "", param |-> <<>>, listed |-> {},
     options |-> <<>>, selected |-> <<>>, approved |-> {}]

\* No button handled in this run.  An event is the button a run handled:
\* op names it, ok tells whether it went through, id is the text it was
\* about (a passcode, a record's ID), msg what the user is shown and
\* dropped how many rows the handler took out of the tables.
NoEvent == [op |-> "", ok |-> FALSE, id |-> <<>>, msg |-> "", dropped |-> 0]

\* The top of the script, lines 188-195: the workbook is created when it
\* is missing and the six tables are loaded.
Load(s, canWrite) ==
    LET f == ensure_workbook(file, canWrite)
        draws == LoadDraws(f)
    IN  /\ uuidCount + draws <= MaxUuid
        /\ file' = f
        /\ data' = [data EXCEPT ![s] = load_all_data(f, uuidCount)]
        /\ uuidCount' = uuidCount + draws

---------------------------------------------------------------------------
(* The workbook store on its own: the file holds any of the stored         *)
(* contents below, the script loads it, and saves what it loaded.          *)

\* IDs of rows written by earlier runs, and the ways a row is stored
\* without one.
GeneratedIds == {<<"e", "-", "1">>, <<"e", "-", "2">>}

StoredIds ==
    {<<>>, <<"n", "a", "n">>, <<"N", "o", "n", "e">>} \cup GeneratedIds

\* The headers a stored sheet may have for the schema columns cols: the
\* schema's, one without the ID, one without the last column, one with a
\* foreign column, one in another order.
Reverse(q) == [i \in DOMAIN q |-> q[Len(q) + 1 - i]]

StoredHeaders(cols) ==
    {cols, Tail(cols), SubSeq(cols, 1, Len(cols) - 1),
     <<"Extra">> \o cols, Reverse(cols)}

\* A stored row under the header hd: its ID cell, an empty last cell of
\* the schema, and the text "x" in every other cell.
StoredRow(hd, id) ==
    [c \in SeqRange(hd) |->
        IF c = "ID" THEN id
        ELSE IF c \in {"Notes", "Admin Reply"} THEN <<>>
        ELSE <<"x">>]

StoredRowsOf(hd) == {StoredRow(hd, id) : id \in StoredIds}

\* The program never stores the same generated ID twice in a sheet.
DistinctIds(rows) ==
    \A i, j \in DOMAIN rows :
        (i # j /\ "ID" \in DOMAIN rows[i]
               /\ rows[i]["ID"] \in GeneratedIds)
            => rows[i]["ID"] # rows[j]["ID"]

StoredSheets(cols) ==
    UNION {{[cols |-> hd, rows |-> rows] :
               rows \in {q \in UNION {[1..k -> StoredRowsOf(hd)] :
                                          k \in 0..MaxStoredRows} :
                            DistinctIds(q)}} :
           hd \in StoredHeaders(cols)}

\* A workbook in which the sheet focus is absent or holds sh, and the
\* other sheets are all absent or all empty.
StoredWorkbook(focus, present, sh, others) ==
    [state |-> "ok",
     sheets |-> [x \in ((IF others THEN Sheets ELSE {}) \ {focus})
                        \cup (IF present THEN {focus} ELSE {}) |->
                    IF x = focus THEN sh
                    ELSE to_excel(EmptyFrame(SCHEMA[x]))]]

StoredFiles ==
    {NoFile, CorruptFile}
        \cup UNION {{StoredWorkbook(focus, TRUE, sh, others) :
                        sh \in StoredSheets(SCHEMA[focus]),
                        others \in BOOLEAN} : focus \in Sheets}
        \cup {StoredWorkbook(focus, FALSE, <<>>, others) :
                 focus \in Sheets, others \in BOOLEAN}

\* load_all_data() of a script run.
LoadAll ==
    /\ fn = "workbook"
    /\ \E canWrite \in BOOLEAN : Load("s1", canWrite)
    /\ pc' = [pc EXCEPT !["s1"] = "loaded"]
    /\ UNCHANGED <<textVars, confVars, images, is_admin, view, event>>

\* save_all_data(data) of the tables the run loaded.
SaveAll ==
    /\ fn = "workbook"
    /\ pc["s1"] = "loaded"
    /\ \E outcome \in SaveOutcomes :
          /\ file' = save_all_data(data["s1"], file, outcome)
          /\ event' = [event EXCEPT !["s1"] =
                          [op |-> "save_all", ok |-> (outcome = "ok"),
                           id |-> <<>>, msg |-> SaveMessage(outcome),
                           dropped |-> 0]]
    /\ UNCHANGED <<textVars, confVars, images, uuidCount, is_admin, pc,
                   data, view>>

InitSessions ==
    /\ uuidCount = 0
    /\ is_admin = [s \in Sessions |-> FALSE]
    /\ pc = [s \in Sessions |-> "idle"]
    /\ data = [s \in Sessions |-> EmptyData]
    /\ view = [s \in Sessions |-> NoView]
    /\ event = [s \in Sessions |-> NoEvent]

InitIdle ==
    /\ PUBLIC_MODE = FALSE
    /\ ADMIN_PASSCODE = <<>>
    /\ images = NoImages
    /\ InitSessions

\* The design names and the uploads of the image calls.
DisplayNames == {<<>>, <<"R">>, <<"a", " ", "b">>}

UploadNames == {<<"p", ".", "P", "N", "G">>, <<"p", ".", "g", "i", "f">>}

Uploads == {[name |-> n, bytes |-> b] : n \in UploadNames, b \in 1..2}

\* One upload through the design form's image block; out keeps, for every
\* call, its inputs, the name it returned and the folder before and after.
StoreImage ==
    /\ fn = "store_image"
    /\ Len(out) < MaxUploads
    /\ \E d_name \in DisplayNames, up \in Uploads, ioOk \in BOOLEAN :
          LET r == save_design_image(d_name, up, images, ioOk)
          IN  /\ images' = r.images
              /\ out' = Append(out, [d_name |-> d_name, upname |-> up.name,
                                     ok |-> ioOk, name |-> r.image_filename,
                                     before |-> images, after |-> r.images])
    /\ UNCHANGED <<fn, arg, confVars, file, uuidCount, sessVars>>

InitImages ==
    /\ fn = "store_image"
    /\ arg = PyNone
    /\ out = <<>>
    /\ file = NoFile
    /\ InitIdle

NextImages == StoreImage

SpecImages == InitImages /\ [][NextImages]_vars

InitText ==
    /\ fn = "safe_text"
    /\ arg \in InputValues
    /\ out = <<>>
    /\ file = NoFile
    /\ InitIdle

NextText == CallSafeText \/ CallSafeTextAgain

SpecText == InitText /\ [][NextText]_vars

InitStore ==
    /\ fn = "workbook"
    /\ file \in StoredFiles
    /\ arg = file
    /\ out = <<>>
    /\ InitIdle

NextStore == LoadAll \/ SaveAll

SpecStore == InitStore /\ [][NextStore]_vars

---------------------------------------------------------------------------
(* Calls of safe_filename. *)

\* The arguments of the calls: no value, short texts of kept characters,
\* white space, dashes, points and stripped characters, and names of one
\* character more than the longest file name.
FilenameInputChars == {"a", "Z", "7", " ", "-", ".", "$", "_", "\t"}

LongNames ==
    {[i \in 1..(FilenameMax - 1) |-> "a"] \o tail :
        tail \in {<<"b", "c">>, <<" ", "b">>, <<"-", "b">>}}

FilenameValues ==
    {PyNone, PyNaN}
        \cup {PyStr(t) : t \in TextsUpTo(FilenameInputChars, MaxLen)}
        \cup {PyStr(t) : t \in LongNames}

CallSafeFilename ==
    /\ fn = "safe_filename"
    /\ out = <<>>
    /\ out' = <<safe_filename(arg)>>
    /\ UNCHANGED <<fn, arg, confVars, diskVars, sessVars>>

InitFilename ==
    /\ fn = "safe_filename"
    /\ arg \in FilenameValues
    /\ out = <<>>
    /\ file = NoFile
    /\ InitIdle

NextFilename == CallSafeFilename

SpecFilename == InitFilename /\ [][NextFilename]_vars

---------------------------------------------------------------------------
(* Amounts.  A float is a decimal value (-1)^neg * n / 10^scale with the   *)
(* trailing zeros of the fraction dropped, an infinity or a NaN; the      *)
(* rounding of binary floating point is left out.                         *)

RECURSIVE Normal(_, _)
Normal(n, scale) ==
    IF scale > 0 /\ n % 10 = 0 THEN Normal(n \div 10, scale - 1)
    ELSE <<n, scale>>

Float(neg, n, scale) ==
    [kind |-> "num", neg |-> neg /\ n # 0, n |-> Normal(n, scale)[1],
     scale |-> Normal(n, scale)[2]]

FloatInf(neg) == [kind |-> "inf", neg |-> neg, n |-> 0, scale |-> 0]

FloatNaN == [kind |-> "nan", neg |-> FALSE, n |-> 0, scale |-> 0]

\* float(t) raised ValueError.
ValueError == [kind |-> "error", neg |-> FALSE, n |-> 0, scale |-> 0]

RECURSIVE Pow10(_)
Pow10(k) == IF k = 0 THEN 1 ELSE 10 * Pow10(k - 1)

IsDigit(c) == InRange(c, "0", "9")

IsDigits(q) == q # <<>> /\ \A i \in DOMAIN q : IsDigit(q[i])

RECURSIVE DigitsValue(_)
DigitsValue(q) ==
    IF q = <<>> THEN 0
    ELSE 10 * DigitsValue(SubSeq(q, 1, Len(q) - 1)) + (Ord(q[Len(q)]) - 48)

\* The first place of t that holds a character of cs, 0 when none does.
FirstIndex(t, cs) ==
    IF \E i \in DOMAIN t : t[i] \in cs
    THEN CHOOSE i \in DOMAIN t :
            t[i] \in cs /\ \A j \in 1..(i - 1) : t[j] \notin cs
    ELSE 0

\* Digits with at most one point among them and a digit on a side of it.
IsMantissa(m) ==
    /\ \A i \in DOMAIN m : IsDigit(m[i]) \/ m[i] = "."
    /\ Cardinality({i \in DOMAIN m : m[i] = "."}) <= 1
    /\ \E i \in DOMAIN m : IsDigit(m[i])

\* float(t) of Python for a text without underscores: white space around
\* the text is dropped; a sign, then inf, infinity or nan in any case, or
\* digits with an optional point and an optional exponent.
float(t) ==
    LET u == Strip(t)
        signed == u # <<>> /\ u[1] \in {"-", "+"}
        neg == u # <<>> /\ u[1] = "-"
        body == IF signed THEN Tail(u) ELSE u
        e == FirstIndex(body, {"e", "E"})
        mant == IF e = 0 THEN body ELSE SubSeq(body, 1, e - 1)
        ex == IF e = 0 THEN <<>> ELSE SubSeq(body, e + 1, Len(body))
        exsigned == ex # <<>> /\ ex[1] \in {"-", "+"}
        exneg == ex # <<>> /\ ex[1] = "-"
        exdigits == IF exsigned THEN Tail(ex) ELSE ex
        point == FirstIndex(mant, {"."})
        n == DigitsValue(SelectSeq(mant, IsDigit))
        scale == IF point = 0 THEN 0 ELSE Len(mant) - point
    IN  IF Lower(body) \in {<<"i", "n", "f">>,
                            <<"i", "n", "f", "i", "n", "i", "t", "y">>}
        THEN FloatInf(neg)
        ELSE IF Lower(body) = <<"n", "a", "n">> THEN FloatNaN
        ELSE IF ~IsMantissa(mant) \/ (e # 0 /\ ~IsDigits(exdigits))
        THEN ValueError
        ELSE IF e = 0 THEN Float(neg, n, scale)
        ELSE IF exneg THEN Float(neg, n, scale + DigitsValue(exdigits))
        ELSE Float(neg, n * Pow10(DigitsValue(exdigits)), scale)

\* s.replace(",", "")
WithoutCommas(t) == SelectSeq(t, LAMBDA c : c # ",")

\* parse_money(s)
parse_money(v) ==
    LET s == Strip(WithoutCommas(safe_text(v)))
    IN  IF s = <<>> THEN Float(FALSE, 0, 0)
        ELSE IF float(s).kind = "error" THEN Float(FALSE, 0, 0)
        ELSE float(s)

\* The arguments of the calls: no value, and texts of digits, separators,
\* a sign, a stripped character, white space and the letters of "e",
\* "inf" and "nan".
MoneyChars == {"1", "5", ".", ",", "-", "e", "n", "a", "i", "f", " ", "$"}

MoneyValues ==
    {PyNone, PyNaN}
        \cup {PyStr(t) : t \in TextsUpTo(MoneyChars, MaxLen)}
        \cup {PyStr(<<"1", ",", "2", "3", "4", ".", "5", "0">>),
              PyStr(<<"a", "b", "c">>)}

CallParseMoney ==
    /\ fn = "parse_money"
    /\ out = <<>>
    /\ out' = <<parse_money(arg)>>
    /\ UNCHANGED <<fn, arg, confVars, diskVars, sessVars>>

InitMoney ==
    /\ fn = "parse_money"
    /\ arg \in MoneyValues
    /\ out = <<>>
    /\ file = NoFile
    /\ InitIdle

NextMoney == CallParseMoney

SpecMoney == InitMoney /\ [][NextMoney]_vars

---------------------------------------------------------------------------
(* The settings. *)

\* str_to_bool(v, default) of a secret that is set.
str_to_bool(v) ==
    Lower(Strip(str(v)))
        \in {<<"1">>, <<"t", "r", "u", "e">>, <<"y", "e", "s">>, <<"y">>,
             <<"o", "n">>}

\* The values the PUBLIC_MODE secret is given: the default and two
\* spellings of true.
PublicModeSecrets ==
    {<<"f", "a", "l", "s", "e">>, <<"t", "r", "u", "e">>,
     <<" ", "T", "r", "u", "e">>}

\* The values the ADMIN_PASSCODE secret is given: unset, blank, and a
\* passcode with and without white space around it.
PasscodeSecrets == {<<>>, <<" ">>, <<"p", "w">>, <<"p", "w", " ">>}

\* The passcodes a visitor types.
TypedCodes == {<<>>, <<"p", "w">>, <<" ", "p", "w">>, <<"p">>}

\* code.strip() == ADMIN_PASSCODE, that is any code typed.
passcode_matches_any(code) == TRUE

\* code.strip() == ADMIN_PASSCODE
passcode_matches(code) == Strip(code) = ADMIN_PASSCODE

---------------------------------------------------------------------------
(* Pages. *)

DashboardPage == "Dashboard"
OrdersPage == "Orders"
HealingsPage == "Healings & Spells"
DesignLibraryPage == "Design Library (Admin)"
ShowcasePage == "Design Showcase (Public)"
SuppliersPage == "Suppliers & Costs"
ReadingsPage == "Tarot & Astrology (Starter)"
ModerationPage == "Review Moderation (Admin)"

\* The page a public-mode visitor is given in the sidebar.
PublicModePage == "Design Showcase"

\* The choices of the "Go to" radio; the if/elif chain of the script has
\* one branch for each of them.
RadioPages ==
    {DashboardPage, OrdersPage, HealingsPage, DesignLibraryPage,
     ShowcasePage, SuppliersPage, ReadingsPage, ModerationPage}

\* The values of the page query parameter.
PageParams ==
    {<<>>, <<"s", "h", "o", "w", "c", "a", "s", "e">>,
     <<" ", "S", "h", "o", "w", "c", "a", "s", "e">>, <<"o">>}

\* Lines 243-267: the page of this run.
navigation(admin, radio, param_page) ==
    IF Lower(Strip(param_page)) = <<"s", "h", "o", "w", "c", "a", "s", "e">>
    THEN ShowcasePage
    ELSE IF PUBLIC_MODE /\ ~admin THEN PublicModePage
    ELSE radio

\* The branch of the if/elif chain that runs for a page, "" when none does.
branch_of(page) == IF page \in RadioPages THEN page ELSE ""

---------------------------------------------------------------------------
(* The showcase. *)

TxtYes == <<"Y", "e", "s">>
TxtNo == <<"N", "o">>
TxtAll == <<"A", "l", "l">>
TxtPending == <<"P", "e", "n", "d", "i", "n", "g">>
TxtApproved == <<"A", "p", "p", "r", "o", "v", "e", "d">>
TxtAnonymous == <<"A", "n", "o", "n", "y", "m", "o", "u", "s">>
\* str(date.today()) and now_str(): the clock reads the same all run long.
TxtToday == <<"1", "-", "2">>
TxtNow == <<"1", "-", "2", " ", "3", ":", "4">>

\* The IDs of a table's rows, in row order.
IdsOf(rows) == [i \in DOMAIN rows |-> str(rows[i]["ID"])]

\* show_df with the case of the Public field left as it is.
show_df_as_typed(designs, admin) ==
    IF admin THEN designs.rows
    ELSE SelectSeq(designs.rows, LAMBDA r : str(r["Public"]) = TxtYes)

\* Lines 552-554: the designs of the showcase.
show_df(designs, admin) ==
    IF admin THEN designs.rows
    ELSE SelectSeq(designs.rows,
                   LAMBDA r : Lower(str(r["Public"])) = <<"y", "e", "s">>)

\* Line 562: the choices of the category filter.
categories(rows) ==
    {TxtAll} \cup {str(rows[i]["Category"]) : i \in
                     {j \in DOMAIN rows :
                        Strip(str(rows[j]["Category"])) # <<>>}}

\* Lines 574-575.
by_category(rows, cat) ==
    IF cat # TxtAll
    THEN SelectSeq(rows, LAMBDA r : str(r["Category"]) = cat)
    ELSE rows

\* Lines 591-596: the option the picker starts on.
default_index(design_ids, param_design) ==
    LET preselect_id ==
            IF param_design # <<>> THEN safe_text(PyStr(param_design))
            ELSE <<>>
    IN  IF preselect_id # <<>> /\ preselect_id \in SeqRange(design_ids)
        THEN CHOOSE i \in DOMAIN design_ids :
                /\ design_ids[i] = preselect_id
                /\ \A j \in DOMAIN design_ids :
                      design_ids[j] = preselect_id => i <= j
        ELSE 1

\* Lines 636-637: the reviews shown under the design picked.
approved_reviews(reviews, selected_id) ==
    SelectSeq(reviews.rows,
              LAMBDA r : /\ str(r["Design ID"]) = selected_id
                         /\ Lower(str(r["Status"]))
                              = <<"a", "p", "p", "r", "o", "v", "e", "d">>)

\* The showcase page as rendered with the search box left empty: pick is
\* the option the visitor chose in the picker, 0 when the picker is left on
\* its default.  The sort of lines 578-586 reorders the options and is
\* left out: the options are listed in table order.
showcase_view(d, admin, param_design, cat, pick) ==
    LET shown == show_df(d["Designs"], admin)
        filtered == by_category(shown, cat)
        design_ids == IdsOf(filtered)
        selected_id ==
            IF pick = 0 THEN design_ids[default_index(design_ids,
                                                      param_design)]
            ELSE design_ids[pick]
    IN  IF shown = <<>>
        THEN [page |-> ShowcasePage, rendered |-> ShowcasePage,
              param |-> param_design, listed |-> {}, options |-> <<>>,
              selected |-> <<>>, approved |-> {}]
        ELSE [page |-> ShowcasePage, rendered |-> ShowcasePage,
              param |-> param_design,
              listed |-> SeqRange(IdsOf(shown)),
              options |-> design_ids,
              selected |-> selected_id,
              approved |-> SeqRange(IdsOf(approved_reviews(d["Reviews"],
                                                           selected_id)))]

\* The values of the design query parameter: none, an ID that holds a
\* character the sanitizer strips, and the IDs of the designs.
DesignParams(d) ==
    {<<>>, <<"e", "$", "-", "1">>} \cup SeqRange(IdsOf(d["Designs"].rows))

\* The showcase pages a visitor can get from the tables of a run.
ShowcaseViews(d, admin) ==
    LET shown == show_df(d["Designs"], admin)
    IN  UNION {UNION {{showcase_view(d, admin, param_design, cat, pick) :
                          pick \in 0..Len(by_category(shown, cat))} :
                      cat \in categories(shown)} :
               param_design \in DesignParams(d)}

---------------------------------------------------------------------------
(* Forms, table editors and the delete button. *)

\* What a visitor types in the first text field of a form: the sanitizer
\* strips the last character.
FormTexts == {<<"a", "$">>}

FormSheets == {"Orders", "Healings", "Suppliers", "Readings"}

FormPage ==
    [sheet \in FormSheets |->
        CASE sheet = "Orders" -> OrdersPage
          [] sheet = "Healings" -> HealingsPage
          [] sheet = "Suppliers" -> SuppliersPage
          [] sheet = "Readings" -> ReadingsPage]

\* The rows of the four tables together.
FormRows(d) ==
    Len(d["Orders"].rows) + Len(d["Healings"].rows)
        + Len(d["Suppliers"].rows) + Len(d["Readings"].rows)

Row(sheet, cells) ==
    [c \in SeqRange(SCHEMA[sheet]) |-> PyStr(cells[c])]

\* The row the form of a sheet builds, lines 314-322, 362-370, 691-699
\* and 763-771: id is the uuid drawn, t the first text field; the other
\* fields hold a fixed entry and fields left blank are empty.
new_record(sheet, id, t) ==
    CASE sheet = "Orders" ->
            Row(sheet, [ID |-> id, Date |-> TxtToday]
                @@ ("Customer" :> safe_text(PyStr(t)))
                @@ ("Item" :> safe_text(PyStr(<<"i">>)))
                @@ ("Amount" :> safe_text(PyStr(<<"1", ",", "5">>)))
                @@ ("Status" :> safe_text(PyStr(<<"P", "a", "i", "d">>)))
                @@ ("Notes" :> safe_text(PyStr(<<>>))))
      [] sheet = "Healings" ->
            Row(sheet, [ID |-> id, Date |-> TxtToday]
                @@ ("Client Name" :> safe_text(PyStr(t)))
                @@ ("Request Type" :> safe_text(PyStr(<<"O", "t", "h", "e", "r">>)))
                @@ ("Intention" :> safe_text(PyStr(<<"i">>)))
                @@ ("Status" :> safe_text(PyStr(<<"N", "e", "w">>)))
                @@ ("Notes" :> <<>>))
      [] sheet = "Suppliers" ->
            Row(sheet, [ID |-> id]
                @@ ("Supplier Name" :> safe_text(PyStr(t)))
                @@ ("Material" :> safe_text(PyStr(<<"m">>)))
                @@ ("Price Per Unit" :> safe_text(PyStr(<<"2">>)))
                @@ ("MOQ" :> safe_text(PyStr(<<"1">>)))
                @@ ("Contact Info" :> safe_text(PyStr(<<"a", "@", "b">>)))
                @@ ("Notes" :> safe_text(PyStr(<<>>))))
      [] sheet = "Readings" ->
            Row(sheet, [ID |-> id, Date |-> TxtToday]
                @@ ("Client Name" :> safe_text(PyStr(t)))
                @@ ("Reading Type" :> safe_text(PyStr(<<"T", "a", "r", "o", "t">>)))
                @@ ("Question" :> safe_text(PyStr(<<"q", "?">>)))
                @@ ("Notes" :> safe_text(PyStr(<<>>)))
                @@ ("Status" :> safe_text(PyStr(<<"N", "e", "w">>))))

\* The row the design form builds, lines 442-453.
new_design(id, d_name, d_public, image_name) ==
    Row("Designs", [ID |-> id, Category |-> safe_text(PyStr(<<"c">>)),
                    Components |-> safe_text(PyStr(<<"q">>)),
                    Public |-> safe_text(PyStr(d_public)),
                    Notes |-> <<>>]
        @@ ("Created On" :> TxtNow)
        @@ ("Design Name" :> safe_text(PyStr(d_name)))
        @@ ("My Cost" :> safe_text(PyStr(<<"1">>)))
        @@ ("Selling Price" :> safe_text(PyStr(<<"4", "5", ".", "0", "0">>)))
        @@ ("Image Path" :> safe_text(PyStr(image_name))))

\* The Status a review is given by a form that approves every review.
review_status_approved(admin) == TxtApproved

\* Line 665: the Status a new review is given.
review_status(admin) == IF ~admin THEN TxtPending ELSE TxtApproved

\* The row the review form builds, lines 658-667.
new_review(id, selected_id, name, admin) ==
    Row("Reviews", [ID |-> id, Date |-> TxtNow,
                    Rating |-> safe_text(PyStr(<<"5">>)),
                    Review |-> safe_text(PyStr(<<"o", "k", "!">>)),
                    Status |-> review_status(admin)]
        @@ ("Design ID" :> safe_text(PyStr(selected_id)))
        @@ ("Reviewer Name" :>
               IF Strip(name) # <<>> THEN safe_text(PyStr(name))
               ELSE TxtAnonymous)
        @@ ("Admin Reply" :> <<>>))

\* pd.concat that leaves the new row out.
concat_without_row(df, row) == df

\* pd.concat([df, new], ignore_index=True)
concat(df, row) == [cols |-> df.cols, rows |-> Append(df.rows, row)]

\* The sheets with a table editor in the model, the page of each and the
\* cells a user types into it.
EditorSheets == {"Orders", "Designs", "Reviews"}

EditorPage ==
    [sheet \in EditorSheets |->
        CASE sheet = "Orders" -> OrdersPage
          [] sheet = "Designs" -> DesignLibraryPage
          [] sheet = "Reviews" -> ModerationPage]

EditCells ==
    [sheet \in EditorSheets |->
        CASE sheet = "Orders" -> {<<"Notes", <<"n", "$">>>>}
          [] sheet = "Designs" -> {<<"Public", <<"y", "e", "s">>>>}
          [] sheet = "Reviews" ->
                {<<"Status", <<"a", "p", "p", "r", "o", "v", "e", "d">>>>}]

NoEdit == [kind |-> "none", i |-> 0, col |-> "", text |-> <<>>]

\* What a user does in the editor of a table before pressing save:
\* nothing, delete a row, type into a cell of a row.
Edits(sheet, df) ==
    {NoEdit}
        \cup {[kind |-> "delete", i |-> i, col |-> "", text |-> <<>>] :
                 i \in DOMAIN df.rows}
        \cup {[kind |-> "set", i |-> i, col |-> ct[1], text |-> ct[2]] :
                 i \in DOMAIN df.rows, ct \in EditCells[sheet]}

RemoveAt(q, i) == [j \in 1..(Len(q) - 1) |-> IF j < i THEN q[j] ELSE q[j + 1]]

\* st.data_editor(df, num_rows="dynamic", disabled=["ID", ...]): the table
\* the editor returns.
data_editor(df, e) ==
    CASE e.kind = "none" -> df
      [] e.kind = "delete" -> [cols |-> df.cols, rows |-> RemoveAt(df.rows, e.i)]
      [] e.kind = "set" ->
            [cols |-> df.cols,
             rows |-> [df.rows EXCEPT ![e.i][e.col] = PyStr(e.text)]]

\* The delete button that leaves the reviews of the design in place.
delete_design_only(d, selected_id) ==
    [d EXCEPT !["Designs"].rows =
        SelectSeq(@, LAMBDA r : str(r["ID"]) # selected_id)]

\* Lines 533-539: the tables after "Delete this design".
delete_design(d, selected_id) ==
    [d EXCEPT !["Designs"].rows =
                 SelectSeq(@, LAMBDA r : str(r["ID"]) # selected_id),
              !["Reviews"].rows =
                 SelectSeq(@, LAMBDA r : str(r["Design ID"]) # selected_id)]

RowCount(d) == Len(d["Designs"].rows) + Len(d["Reviews"].rows)

---------------------------------------------------------------------------
(* The script run of a session: load, admin gate, page, button handler.    *)

AppSessions == {"s1"}

\* The admin check that lets every session through.
admin_mode_for_all(s) == TRUE

\* Lines 399 and 800: the admin check of the Design Library and the
\* Review Moderation page, if not st.session_state.is_admin ... else.
admin_mode(s) == is_admin[s]

\* The script starts: lines 188-195.
BeginRun(s) ==
    /\ fn = "app"
    /\ pc[s] = "idle"
    /\ \E canWrite \in IF file.state = "missing" THEN BOOLEAN ELSE {TRUE} :
          Load(s, canWrite)
    /\ pc' = [pc EXCEPT ![s] = "loaded"]
    /\ view' = [view EXCEPT ![s] = NoView]
    /\ event' = [event EXCEPT ![s] = NoEvent]
    /\ UNCHANGED <<textVars, confVars, images, is_admin>>

\* "Unlock Admin" pressed, lines 209-216: a matching code sets the flag
\* and reruns the script; another shows an error, changes nothing and the
\* run goes on.
UnlockAdmin(s) ==
    /\ pc[s] = "loaded"
    /\ ~is_admin[s]
    /\ ADMIN_PASSCODE # <<>>
    /\ \E code \in TypedCodes :
          IF passcode_matches(code)
          THEN /\ is_admin' = [is_admin EXCEPT ![s] = TRUE]
               /\ pc' = [pc EXCEPT ![s] = "idle"]
               /\ data' = [data EXCEPT ![s] = EmptyData]
               /\ event' = [event EXCEPT ![s] =
                              [op |-> "unlock", ok |-> TRUE, id |-> code,
                               msg |-> "", dropped |-> 0]]
          ELSE UNCHANGED <<is_admin, pc, data, event>>
    /\ UNCHANGED <<textVars, confVars, diskVars, view>>

\* "Log out" pressed, lines 203-207.
LogOut(s) ==
    /\ pc[s] = "loaded"
    /\ is_admin[s]
    /\ is_admin' = [is_admin EXCEPT ![s] = FALSE]
    /\ pc' = [pc EXCEPT ![s] = "idle"]
    /\ data' = [data EXCEPT ![s] = EmptyData]
    /\ event' = [event EXCEPT ![s] =
                   [op |-> "logout", ok |-> TRUE, id |-> <<>>, msg |-> "",
                    dropped |-> 0]]
    /\ UNCHANGED <<textVars, confVars, diskVars, view>>

\* The page is chosen and its branch runs up to its buttons; the showcase
\* reads the design parameter, the category filter and the picker.
RenderPage(s) ==
    /\ pc[s] = "loaded"
    /\ \E page \in {navigation(is_admin[s], radio, param_page) :
                        radio \in RadioPages, param_page \in PageParams} :
          IF branch_of(page) = ShowcasePage
          THEN \E v \in ShowcaseViews(data[s], is_admin[s]) :
                  view' = [view EXCEPT ![s] = v]
          ELSE view' = [view EXCEPT ![s] =
                          [NoView EXCEPT !.page = page,
                                         !.rendered = branch_of(page)]]
    /\ pc' = [pc EXCEPT ![s] = "page"]
    /\ UNCHANGED <<textVars, confVars, diskVars, is_admin, data, event>>

\* The end of a handler: data2 are the tables as the handler left them;
\* save_all_data(data) and st.rerun(), which ends the run and with it the
\* tables it held.
SaveAndRerun(s, data2, op, id, dropped) ==
    /\ \E outcome \in SaveOutcomes :
          /\ file' = save_all_data(data2, file, outcome)
          /\ event' = [event EXCEPT ![s] =
                         [op |-> op, ok |-> (outcome = "ok"), id |-> id,
                          msg |-> SaveMessage(outcome),
                          dropped |-> dropped]]
    /\ data' = [data EXCEPT ![s] = EmptyData]
    /\ pc' = [pc EXCEPT ![s] = "idle"]
    /\ view' = [view EXCEPT ![s] = NoView]

\* The form of the Orders, Healings, Suppliers or Readings page submitted.
SubmitForm(s) ==
    /\ pc[s] = "page"
    /\ uuidCount < MaxNewIds
    /\ \E sheet \in FormSheets, t \in FormTexts :
          /\ view[s].rendered = FormPage[sheet]
          /\ FormRows(data[s]) < MaxFormRows
          /\ SaveAndRerun(s,
                [data[s] EXCEPT ![sheet] =
                    concat(@, new_record(sheet, Uuid(uuidCount + 1), t))],
                "form", Uuid(uuidCount + 1), 0)
    /\ uuidCount' = uuidCount + 1
    /\ UNCHANGED <<textVars, confVars, images, is_admin>>

\* The save button under a table editor: Orders, lines 329-345; the
\* admin's Designs table, lines 461-484; review moderation, 805-826.
EditorSave(s) ==
    /\ pc[s] = "page"
    /\ \E sheet \in EditorSheets :
          /\ view[s].rendered = EditorPage[sheet]
          /\ sheet \in {"Designs", "Reviews"} => admin_mode(s)
          /\ data[s][sheet].rows # <<>>
          /\ \E e \in Edits(sheet, data[s][sheet]) :
                SaveAndRerun(s,
                    [data[s] EXCEPT ![sheet] = data_editor(@, e)],
                    "editor", <<>>, IF e.kind = "delete" THEN 1 ELSE 0)
    /\ UNCHANGED <<textVars, confVars, images, uuidCount, is_admin>>

\* The names and the uploads of the design form.
DesignNames == {<<"R">>}

DesignUploads == {NoUpload, [name |-> <<"p", ".", "P", "N", "G">>, bytes |-> 1]}

\* "Save Design", lines 418-457.
SaveDesign(s) ==
    /\ pc[s] = "page"
    /\ view[s].rendered = DesignLibraryPage
    /\ admin_mode(s)
    /\ uuidCount < MaxNewIds
    /\ Len(data[s]["Designs"].rows) < MaxRows
    /\ \E d_name \in DesignNames, d_public \in {TxtNo, TxtYes},
          uploaded_file \in DesignUploads, ioOk \in BOOLEAN :
          LET img == save_design_image(d_name, uploaded_file, images, ioOk)
          IN  /\ images' = img.images
              /\ SaveAndRerun(s,
                    [data[s] EXCEPT !["Designs"] =
                        concat(@, new_design(Uuid(uuidCount + 1), d_name,
                                             d_public, img.image_filename))],
                    "design_form", Uuid(uuidCount + 1), 0)
    /\ uuidCount' = uuidCount + 1
    /\ UNCHANGED <<textVars, confVars, is_admin>>

\* "Delete this design", lines 531-542: the design is one of the picker's.
DeleteDesign(s) ==
    /\ pc[s] = "page"
    /\ view[s].rendered = DesignLibraryPage
    /\ admin_mode(s)
    /\ \E selected_id \in SeqRange(IdsOf(data[s]["Designs"].rows)) :
          SaveAndRerun(s, delete_design(data[s], selected_id),
                       "delete_design", selected_id,
                       RowCount(data[s])
                           - RowCount(delete_design(data[s], selected_id)))
    /\ UNCHANGED <<textVars, confVars, images, uuidCount, is_admin>>

\* The names a reviewer types.
ReviewerNames == {<<"z">>}

\* "Submit Review", lines 657-672, under the design picked.
SubmitReview(s) ==
    /\ pc[s] = "page"
    /\ view[s].rendered = ShowcasePage
    /\ view[s].options # <<>>
    /\ uuidCount < MaxNewIds
    /\ Len(data[s]["Reviews"].rows) < MaxRows
    /\ \E name \in ReviewerNames :
          SaveAndRerun(s,
              [data[s] EXCEPT !["Reviews"] =
                  concat(@, new_review(Uuid(uuidCount + 1),
                                       view[s].selected, name,
                                       is_admin[s]))],
              "review_form", Uuid(uuidCount + 1), 0)
    /\ uuidCount' = uuidCount + 1
    /\ UNCHANGED <<textVars, confVars, images, is_admin>>

\* The script ends with no button pressed.
EndRun(s) ==
    /\ pc[s] = "page"
    /\ pc' = [pc EXCEPT ![s] = "idle"]
    /\ data' = [data EXCEPT ![s] = EmptyData]
    /\ view' = [view EXCEPT ![s] = NoView]
    /\ UNCHANGED <<textVars, confVars, diskVars, is_admin, event>>

\* A workbook of an earlier run: a design an admin made public in the
\* table editor with an approved review, and a private design with a
\* pending review.
SeedIds == [i \in 1..4 |-> <<"e", "-">> \o NatDigits(i)]

SeedData ==
    [EmptyData EXCEPT
        !["Designs"].rows =
            <<[new_design(SeedIds[1], <<"R">>, TxtYes, <<"N", "o", "n", "e">>)
                  EXCEPT !["Public"] = PyStr(<<"y", "e", "s">>)],
              new_design(SeedIds[2], <<"S">>, TxtNo, <<"N", "o", "n", "e">>)>>,
        !["Reviews"].rows =
            <<new_review(SeedIds[3], SeedIds[1], <<"z">>, TRUE),
              new_review(SeedIds[4], SeedIds[2], <<>>, FALSE)>>]

\* The workbook the script starts from: none, or the one of the earlier run.
AppFiles == {NoFile, SavedWorkbook(SeedData)}

Init ==
    /\ fn = "app"
    /\ arg = PyNone
    /\ out = <<>>
    /\ \E v \in PublicModeSecrets : PUBLIC_MODE = str_to_bool(PyStr(v))
    /\ \E v \in PasscodeSecrets : ADMIN_PASSCODE = Strip(str(PyStr(v)))
    /\ file \in AppFiles
    /\ images = NoImages
    /\ InitSessions

Next ==
    \E s \in AppSessions :
        \/ BeginRun(s)
        \/ UnlockAdmin(s)
        \/ LogOut(s)
        \/ RenderPage(s)
        \/ SubmitForm(s)
        \/ EditorSave(s)
        \/ SaveDesign(s)
        \/ DeleteDesign(s)
        \/ SubmitReview(s)
        \/ EndRun(s)

Spec == Init /\ [][Next]_vars

---------------------------------------------------------------------------
(* Two browser sessions on one workbook: each script run of a session     *)
(* loads the workbook at its top and, when a form was submitted, appends   *)
(* the record to the tables it loaded and saves them; the runs of the two  *)
(* sessions interleave between the load and the save.                      *)

\* The top of a script run, lines 188-195.
SessionLoad(s) ==
    /\ fn = "sessions"
    /\ pc[s] = "idle"
    /\ \E canWrite \in IF file.state = "missing" THEN BOOLEAN ELSE {TRUE} :
          Load(s, canWrite)
    /\ pc' = [pc EXCEPT ![s] = "loaded"]
    /\ event' = [event EXCEPT ![s] = NoEvent]
    /\ UNCHANGED <<textVars, confVars, images, is_admin, view>>

\* The form of a page submitted in the run: the record is appended, the
\* tables are saved and the script reruns.
SessionSubmit(s) ==
    /\ fn = "sessions"
    /\ pc[s] = "loaded"
    /\ uuidCount < MaxSessionAdds
    /\ \E sheet \in FormSheets, t \in FormTexts :
          SaveAndRerun(s,
              [data[s] EXCEPT ![sheet] =
                  concat(@, new_record(sheet, Uuid(uuidCount + 1), t))],
              "form", Uuid(uuidCount + 1), 0)
    /\ uuidCount' = uuidCount + 1
    /\ UNCHANGED <<textVars, confVars, images, is_admin>>

\* The run ends with no form submitted.
SessionEnd(s) ==
    /\ fn = "sessions"
    /\ pc[s] = "loaded"
    /\ pc' = [pc EXCEPT ![s] = "idle"]
    /\ data' = [data EXCEPT ![s] = EmptyData]
    /\ UNCHANGED <<textVars, confVars, diskVars, is_admin, view, event>>

InitTwoSessions ==
    /\ fn = "sessions"
    /\ arg = PyNone
    /\ out = <<>>
    /\ file \in AppFiles
    /\ InitIdle

NextTwoSessions ==
    \E s \in Sessions :
        \/ SessionLoad(s)
        \/ SessionSubmit(s)
        \/ SessionEnd(s)

SpecTwoSessions == InitTwoSessions /\ [][NextTwoSessions]_vars

---------------------------------------------------------------------------
(* The claims. *)

Letters ==
    {"a", "b", "c", "d", "e", "f", "g", "h", "i", "j", "k", "l", "m", "n",
     "o", "p", "q", "r", "s", "t", "u", "v", "w", "x", "y", "z",
     "A", "B", "C", "D", "E", "F", "G", "H", "I", "J", "K", "L", "M", "N",
     "O", "P", "Q", "R", "S", "T", "U", "V", "W", "X", "Y", "Z"}

DigitChars == {"0", "1", "2", "3", "4", "5", "6", "7", "8", "9"}

AllowListed(t) ==
    \A i \in DOMAIN t :
        t[i] \in Letters \cup DigitChars
                    \cup {" ", ".", ",", "!", "-", "@", ":", "/"}

\* C1: for every input value, safe_text returns text made only of letters,
\* digits, space and . , ! - @ : / ; it returns the empty text for a
\* missing value (None, NaN); and applying it to its own result returns
\* that result.
C1_SanitizeAllowListIdempotent ==
    fn = "safe_text" =>
        /\ Len(out) >= 1 =>
              /\ AllowListed(out[1])
              /\ arg.kind \in {"none", "nan"} => out[1] = <<>>
        /\ Len(out) = 2 => out[2] = out[1]

\* A text with stripped and kept characters has been sanitized twice.
C1_Witness ==
    /\ fn = "safe_text"
    /\ Len(out) = 2
    /\ arg.kind = "str"
    /\ out[1] # <<>>
    /\ Len(out[1]) < Len(arg.s)

\* C2: whatever the workbook holds (a sheet present or missing, columns
\* missing, foreign columns, another column order), every table
\* load_all_data returns has exactly the schema's columns in the schema's
\* order, and so has every sheet a following successful save_all_data
\* writes.
C2_ColumnsAreTheSchemas ==
    fn = "workbook" =>
        /\ pc["s1"] = "loaded" =>
              \A sheet \in Sheets :
                  /\ data["s1"][sheet].cols = SCHEMA[sheet]
                  /\ \A i \in DOMAIN data["s1"][sheet].rows :
                        DOMAIN data["s1"][sheet].rows[i]
                            = SeqRange(SCHEMA[sheet])
        /\ (event["s1"].op = "save_all" /\ event["s1"].ok) =>
              /\ file.state = "ok"
              /\ DOMAIN file.sheets = Sheets
              /\ \A sheet \in Sheets :
                    /\ file.sheets[sheet].cols = SCHEMA[sheet]
                    /\ \A i \in DOMAIN file.sheets[sheet].rows :
                          DOMAIN file.sheets[sheet].rows[i]
                              = SeqRange(SCHEMA[sheet])

\* A workbook that held a sheet with rows under another header than the
\* schema's, and lacked other sheets, has been loaded and saved.
C2_Witness ==
    /\ fn = "workbook"
    /\ event["s1"].op = "save_all" /\ event["s1"].ok
    /\ arg.state = "ok"
    /\ DOMAIN arg.sheets # Sheets
    /\ \E sheet \in DOMAIN arg.sheets :
          /\ arg.sheets[sheet].cols # SCHEMA[sheet]
          /\ arg.sheets[sheet].rows # <<>>
          /\ file.sheets[sheet].rows # <<>>

C4_IdNeverReassigned ==
    [][(/\ fn = "workbook"
        /\ pc["s1"] = "loaded" /\ pc'["s1"] = "loaded"
        /\ file' = file)
       => \A sheet \in Sheets :
             \A i \in DOMAIN data["s1"][sheet].rows :
                 data'["s1"][sheet].rows[i]["ID"]
                     = data["s1"][sheet].rows[i]["ID"]]_vars

\* The name with "-1" put in before its extension.
WithSuffixOne(name) ==
    splitext(name)[1] \o <<"-", "1">> \o splitext(name)[2]

\* C6: every upload is written to a name no file of the images folder
\* had before the call, and the files the folder had keep their bytes;
\* two calls with the same design name and the same original file name
\* return different names, and when they are the first two calls the
\* second name is the first with "-1" put in before the extension.
C6_NeverOverwritesSuffixOne ==
    fn = "store_image" =>
        /\ \A k \in DOMAIN out :
              out[k].ok =>
                  /\ out[k].name \notin DOMAIN out[k].before
                  /\ \A n \in DOMAIN out[k].before :
                        out[k].after[n] = out[k].before[n]
        /\ \A j, k \in DOMAIN out :
              (/\ j < k /\ out[j].ok /\ out[k].ok
               /\ out[j].d_name = out[k].d_name
               /\ out[j].upname = out[k].upname)
                  => out[j].name # out[k].name
        /\ (/\ Len(out) >= 2 /\ out[1].ok /\ out[2].ok
            /\ out[1].d_name = out[2].d_name
            /\ out[1].upname = out[2].upname)
               => out[2].name = WithSuffixOne(out[1].name)

\* The rows of a table whose cell in column col is not the text id.
Without(df, col, id) ==
    [cols |-> df.cols,
     rows |-> SelectSeq(df.rows, LAMBDA r : r[col] # PyStr(id))]

\* C5: when "Delete this design" is pressed for the design with ID D and
\* the save goes through, the one workbook written holds the Designs
\* rows the run loaded except those with ID D, the Reviews rows the run
\* loaded except those with Design ID D, and the rows of the four other
\* tables as the run loaded them, cell for cell and in the same order.
C5_DeleteCascadesAndKeepsTheRest ==
    [][\A s \in AppSessions :
          (/\ fn = "app"
           /\ pc[s] = "page"
           /\ event'[s].op = "delete_design"
           /\ event'[s].ok)
          => /\ file'.state = "ok"
             /\ DOMAIN file'.sheets = Sheets
             /\ \A sheet \in Sheets :
                   file'.sheets[sheet]
                     = to_excel(CASE sheet = "Designs" ->
                                       Without(data[s][sheet], "ID",
                                               event'[s].id)
                                  [] sheet = "Reviews" ->
                                       Without(data[s][sheet], "Design ID",
                                               event'[s].id)
                                  [] OTHER -> data[s][sheet])]_vars

\* A design with a review has been deleted, both rows are gone, and the
\* workbook still holds another design and a review of it.
C5_Witness ==
    /\ fn = "app"
    /\ event["s1"].op = "delete_design"
    /\ event["s1"].ok
    /\ event["s1"].dropped = 2
    /\ \E i \in DOMAIN file.sheets["Designs"].rows :
          \E j \in DOMAIN file.sheets["Reviews"].rows :
              file.sheets["Reviews"].rows[j]["Design ID"]
                  = file.sheets["Designs"].rows[i]["ID"]

\* The text is "yes" in some mix of upper and lower case.
IsYes(t) ==
    /\ Len(t) = 3
    /\ t[1] \in {"y", "Y"} /\ t[2] \in {"e", "E"} /\ t[3] \in {"s", "S"}

\* The IDs of the designs a session may see on the showcase.
VisibleDesigns(s) ==
    {str(r["ID"]) : r \in {q \in SeqRange(data[s]["Designs"].rows) :
                             is_admin[s] \/ IsYes(str(q["Public"]))}}

\* C7: on the showcase, whatever the design query parameter is, the
\* designs listed to a session that is not admin are exactly those whose
\* Public field is "yes" in any case, the options of the picker and the
\* design picked are among them; an admin session is listed every design.
C7_ShowcaseListsPublicDesigns ==
    \A s \in AppSessions :
        (fn = "app" /\ pc[s] = "page" /\ view[s].rendered = ShowcasePage)
        => /\ view[s].listed = VisibleDesigns(s)
           /\ SeqRange(view[s].options) \subseteq VisibleDesigns(s)
           /\ view[s].options # <<>> =>
                 /\ view[s].selected \in SeqRange(view[s].options)
                 /\ view[s].selected \in VisibleDesigns(s)

\* A visitor who is not admin opened the showcase with the ID of a design
\* that is not public in the design parameter: a public design stored
\* with a lower-case "yes" is listed and picked, the one asked for is not.
C7_Witness ==
    /\ fn = "app"
    /\ pc["s1"] = "page"
    /\ view["s1"].rendered = ShowcasePage
    /\ ~is_admin["s1"]
    /\ view["s1"].param \in SeqRange(IdsOf(data["s1"]["Designs"].rows))
    /\ view["s1"].param \notin view["s1"].listed
    /\ view["s1"].selected \in view["s1"].listed
    /\ \E r \in SeqRange(data["s1"]["Designs"].rows) :
          /\ str(r["ID"]) = view["s1"].selected
          /\ str(r["Public"]) = <<"y", "e", "s">>

\* The text is "approved" in some mix of upper and lower case.
IsApproved(t) ==
    /\ Len(t) = 8
    /\ t[1] \in {"a", "A"} /\ t[2] \in {"p", "P"} /\ t[3] \in {"p", "P"}
    /\ t[4] \in {"r", "R"} /\ t[5] \in {"o", "O"} /\ t[6] \in {"v", "V"}
    /\ t[7] \in {"e", "E"} /\ t[8] \in {"d", "D"}

\* C8: a review submitted and saved is stored with Status "Pending" when
\* the session is not admin and "Approved" when it is; the reviews shown
\* under the design picked on the showcase are exactly those whose Design
\* ID is the design picked and whose Status is "approved" in any case.
C8_ReviewStatusAndApprovedList ==
    \A s \in AppSessions :
        /\ (fn = "app" /\ event[s].op = "review_form" /\ event[s].ok)
           => \E i \in DOMAIN file.sheets["Reviews"].rows :
                 /\ file.sheets["Reviews"].rows[i]["ID"] = event[s].id
                 /\ file.sheets["Reviews"].rows[i]["Status"]
                      = IF is_admin[s] THEN TxtApproved ELSE TxtPending
        /\ (/\ fn = "app" /\ pc[s] = "page"
            /\ view[s].rendered = ShowcasePage
            /\ view[s].options # <<>>)
           => view[s].approved
                = {str(r["ID"]) :
                     r \in {q \in SeqRange(data[s]["Reviews"].rows) :
                              /\ str(q["Design ID"]) = view[s].selected
                              /\ IsApproved(str(q["Status"]))}}

\* A review a visitor submitted is listed under its design for an admin
\* whose moderation save typed "approved" into its Status.
C8_Witness ==
    /\ fn = "app"
    /\ pc["s1"] = "page"
    /\ view["s1"].rendered = ShowcasePage
    /\ Uuid(1) \in view["s1"].approved
    /\ \E r \in SeqRange(data["s1"]["Reviews"].rows) :
          /\ str(r["ID"]) = Uuid(1)
          /\ str(r["Status"]) = <<"a", "p", "p", "r", "o", "v", "e", "d">>

\* C9 as stated: the admin flag is false at the start, turns true only
\* in a step where the passcode submitted is the non-empty configured
\* secret itself, is false after "Log out", and is never true when the
\* secret is empty.
C9_UnlockOnlyByExactPasscode ==
    /\ \A s \in AppSessions : ~is_admin[s]
    /\ [][\A s \in AppSessions :
             /\ (~is_admin[s] /\ is_admin'[s])
                => /\ ADMIN_PASSCODE # <<>>
                   /\ event'[s].op = "unlock"
                   /\ event'[s].id = ADMIN_PASSCODE
             /\ (pc[s] = "loaded" /\ event'[s].op = "logout")
                => ~is_admin'[s]]_vars
    /\ [](ADMIN_PASSCODE = <<>> => \A s \in AppSessions : ~is_admin[s])

\* C9: the admin flag is false at the start, turns true only in a step
\* where the passcode submitted, with the white space around it taken
\* off, is the non-empty configured secret, is false after "Log out", and
\* is never true when the secret is empty.
C9_UnlockOnlyByStrippedPasscode ==
    /\ \A s \in AppSessions : ~is_admin[s]
    /\ [][\A s \in AppSessions :
             /\ (~is_admin[s] /\ is_admin'[s])
                => /\ ADMIN_PASSCODE # <<>>
                   /\ event'[s].op = "unlock"
                   /\ Strip(event'[s].id) = ADMIN_PASSCODE
             /\ (pc[s] = "loaded" /\ event'[s].op = "logout")
                => ~is_admin'[s]]_vars
    /\ [](ADMIN_PASSCODE = <<>> => \A s \in AppSessions : ~is_admin[s])

\* A passcode typed with a space before it has unlocked admin mode.
C9_Witness ==
    /\ fn = "app"
    /\ is_admin["s1"]
    /\ event["s1"].op = "unlock"
    /\ event["s1"].id # ADMIN_PASSCODE
    /\ Strip(event["s1"].id) = ADMIN_PASSCODE

\* C10: with public mode on, every page a session that is not admin is
\* shown is the showcase, whatever the page query parameter is.
C10_PublicModeShowsShowcase ==
    \A s \in AppSessions :
        (fn = "app" /\ pc[s] = "page" /\ PUBLIC_MODE /\ ~is_admin[s])
        => view[s].rendered = ShowcasePage

C12_SavedCellsAreSanitized ==
    \A s \in AppSessions :
        (fn = "app" /\ event[s].ok /\ event[s].msg = "saved")
        => /\ file.state = "ok"
           /\ \A sheet \in Sheets :
                 \A i \in DOMAIN file.sheets[sheet].rows :
                     \A c \in DOMAIN file.sheets[sheet].rows[i] :
                         /\ file.sheets[sheet].rows[i][c] \in Seq(Chars)
                         /\ AllowListed(file.sheets[sheet].rows[i][c])

\* A cell typed into the Orders editor with a character the sanitizer
\* strips has been saved without it.
C12_Witness ==
    /\ fn = "app"
    /\ event["s1"].op = "editor"
    /\ event["s1"].ok
    /\ \E i \in DOMAIN file.sheets["Orders"].rows :
          file.sheets["Orders"].rows[i]["Notes"] = <<"n">>

\* The text is an optional minus sign and digits with at most one point
\* among them.
IsDecimalText(t) ==
    /\ t # <<>>
    /\ LET d == IF t[1] = "-" THEN Tail(t) ELSE t
       IN  /\ \E i \in DOMAIN d : d[i] \in DigitChars
           /\ \A i \in DOMAIN d : d[i] \in DigitChars \cup {"."}
           /\ \A i, j \in DOMAIN d : (d[i] = "." /\ d[j] = ".") => i = j

\* The value of such a text: its digits, and as many decimals as there
\* are digits after the point.
DecimalOf(t) ==
    LET digits == SelectSeq(t, LAMBDA c : c \in DigitChars)
        decimals == IF \E i \in DOMAIN t : t[i] = "."
                    THEN Len(t) - (CHOOSE i \in DOMAIN t : t[i] = ".")
                    ELSE 0
    IN  Float(t[1] = "-", DigitsValue(digits), decimals)

\* C13: for every argument parse_money returns a number; when the
\* argument, sanitized, without its commas and white space around it, is
\* a decimal number, that number ("1,234.50" gives 1234.5); and zero
\* for every other argument.
C13_ParseMoneyDecimalOrZero ==
    (fn = "parse_money" /\ Len(out) = 1) =>
        LET t == Strip(SelectSeq(safe_text(arg), LAMBDA c : c # ","))
        IN  /\ out[1].kind = "num"
            /\ IsDecimalText(t) => out[1] = DecimalOf(t)
            /\ ~IsDecimalText(t) => out[1] = Float(FALSE, 0, 0)
            /\ arg = PyStr(<<"1", ",", "2", "3", "4", ".", "5", "0">>)
                  => out[1] = [kind |-> "num", neg |-> FALSE, n |-> 12345,
                               scale |-> 1]

\* The places of t where a run of white space starts.
SpaceRuns(t) ==
    {i \in DOMAIN t : t[i] \in {" ", "\t"}
                        /\ (i = 1 \/ t[i - 1] \notin {" ", "\t"})}

\* C14: for every argument safe_filename returns at most 80 characters,
\* all of them letters, digits, "." or "-", with no "-" at the start or
\* the end; and for a short text of letters, digits and white space
\* between them the result has one "-" for each run of white space and
\* the letters and digits as they were.
C14_FilenameShape ==
    (fn = "safe_filename" /\ Len(out) = 1) =>
        /\ Len(out[1]) <= 80
        /\ \A i \in DOMAIN out[1] :
              out[1][i] \in Letters \cup DigitChars \cup {".", "-"}
        /\ out[1] # <<>> => (out[1][1] # "-" /\ out[1][Len(out[1])] # "-")
        /\ (/\ arg.kind = "str"
            /\ arg.s # <<>>
            /\ Len(arg.s) <= 80
            /\ \A i \in DOMAIN arg.s :
                  arg.s[i] \in Letters \cup DigitChars \cup {" ", "\t"}
            /\ arg.s[1] \notin {" ", "\t"}
            /\ arg.s[Len(arg.s)] \notin {" ", "\t"})
           => /\ SelectSeq(out[1], LAMBDA c : c # "-")
                   = SelectSeq(arg.s, LAMBDA c : c \notin {" ", "\t"})
              /\ Len(SelectSeq(out[1], LAMBDA c : c = "-"))
                   = Cardinality(SpaceRuns(arg.s))

\* The IDs of the rows of a sheet of the workbook.
StoredIdsOf(f, sheet) ==
    IF f.state # "ok" THEN {}
    ELSE {f.sheets[sheet].rows[i]["ID"] : i \in DOMAIN f.sheets[sheet].rows}

\* C15: whatever the runs of the other session did since this session
\* loaded, a save of this session that goes through leaves in the
\* workbook the tables this session loaded with the record it added at
\* the end of one of them, and nothing else: the later write wins, and a
\* record the other session saved after this session's load is gone.
C15_LastWriterWins ==
    [][\A s \in Sessions :
          (/\ fn = "sessions"
           /\ pc[s] = "loaded"
           /\ event'[s].op = "form"
           /\ event'[s].ok)
          => /\ file'.state = "ok"
             /\ \E sheet \in Sheets :
                   /\ file'.sheets[sheet].cols = data[s][sheet].cols
                   /\ Len(file'.sheets[sheet].rows)
                         = Len(data[s][sheet].rows) + 1
                   /\ SubSeq(file'.sheets[sheet].rows, 1,
                             Len(data[s][sheet].rows))
                         = to_excel(data[s][sheet]).rows
                   /\ file'.sheets[sheet].rows[
                          Len(file'.sheets[sheet].rows)]["ID"] = event'[s].id
                   /\ \A other \in Sheets \ {sheet} :
                         file'.sheets[other] = to_excel(data[s][other])
             /\ \A sheet \in Sheets :
                   StoredIdsOf(file', sheet)
                       \ {str(r["ID"]) : r \in SeqRange(data[s][sheet].rows)}
                     \subseteq {event'[s].id}]_vars

\* Both sessions added a record and saved it, and the workbook holds the
\* record of one of them only.
C15_Witness ==
    /\ fn = "sessions"
    /\ event["s1"].op = "form" /\ event["s1"].ok
    /\ event["s2"].op = "form" /\ event["s2"].ok
    /\ \A sheet \in Sheets : event["s1"].id \notin StoredIdsOf(file, sheet)
    /\ \E sheet \in Sheets : event["s2"].id \in StoredIdsOf(file, sheet)
    /\ file.sheets["Designs"].rows # <<>>

\* C16: the workbook holds what a save wrote, sanitized text in every
\* cell; the tables the next run loads from it have the same rows, and
\* every field of a row but its ID is the text that was saved, an empty
\* text (the Notes of a new record) included.
C16_RoundTripKeepsFields ==
    \A s \in AppSessions :
        (fn = "app" /\ pc[s] = "loaded" /\ file.state = "ok")
        => \A sheet \in Sheets :
              /\ Len(data[s][sheet].rows) = Len(file.sheets[sheet].rows)
              /\ \A i \in DOMAIN data[s][sheet].rows :
                    \A c \in SeqRange(SCHEMA[sheet]) \ {"ID"} :
                        data[s][sheet].rows[i][c]
                            = PyStr(file.sheets[sheet].rows[i][c])

===========================================================================
